---- MODULE Spec2Model ----
(***************************************************************************)
(* Orbit camera of camera.py: the Camera object's fields, its event        *)
(* handler, its dirty flag and its geometric queries.                      *)
(*                                                                         *)
(* Numbers.  The fields theta and phi are Python floats.  They are kept    *)
(* here as integers counting units of 1e-7 rad, so that the sensitivity    *)
(* (0.005 rad per pixel) and the clamp bound np.pi/2 are both whole        *)
(* numbers and the bound is NOT a multiple of the sensitivity, as in the   *)
(* code.  The geometric queries compute in floating point; they are        *)
(* modelled with a decimal floating-point arithmetic of four significant   *)
(* digits (a mantissa and an exponent, with nan and inf), so that the      *)
(* relative precision of small values, on which the behaviour at the       *)
(* clamped endpoints depends, is kept.                                     *)
(***************************************************************************)
EXTENDS Integers, Sequences, FiniteSets, TLC

(***************************************************************************)
(* Decimal floating point: [k |-> "num", m |-> mantissa, e |-> exponent]   *)
(* stands for m * 10^e with m = 0 or 1000 <= |m| <= 9999; k is "nan" or    *)
(* "inf" for the IEEE special values (m is the sign of an inf).  The       *)
(* operations are functions on Float, so that an operand is evaluated      *)
(* once, wrapped in operators of the usual shape.                          *)
(***************************************************************************)
MantLo == 10 * 10 * 10
MantHi == 10 * MantLo

Abs(n) == IF n < 0 THEN -n ELSE n
Sgn(n) == IF n < 0 THEN -1 ELSE IF n > 0 THEN 1 ELSE 0

RECURSIVE Pow10(_)
Pow10(n) == IF n = 0 THEN 1 ELSE 10 * Pow10(n - 1)

\* n / d rounded to the nearest integer, halves away from zero (d > 0)
RoundDiv(n, d) == Sgn(n) * ((2 * Abs(n) + d) \div (2 * d))

Float == [k : {"num", "nan", "inf"}, m : Int, e : Int]
FZero == [k |-> "num", m |-> 0, e |-> 0]
FNaN == [k |-> "nan", m |-> 0, e |-> 0]
FInf(s) == [k |-> "inf", m |-> s, e |-> 0]

IsNum(a) == a.k = "num"
IsNaN(a) == a.k = "nan"

\* the float nearest m * 10^e
FlF[p \in Int \X Int] ==
    IF p[1] = 0 THEN FZero
    ELSE IF Abs(p[1]) >= MantHi THEN FlF[<<RoundDiv(p[1], 10), p[2] + 1>>]
    ELSE IF Abs(p[1]) < MantLo THEN FlF[<<p[1] * 10, p[2] - 1>>]
    ELSE [k |-> "num", m |-> p[1], e |-> p[2]]
Fl(m, e) == FlF[<<m, e>>]

FromInt(n) == Fl(n, 0)
FOne == FromInt(1)

FNegF[a \in Float] ==
    IF IsNum(a) THEN [a EXCEPT !.m = -a.m]
    ELSE IF IsNaN(a) THEN FNaN ELSE FInf(-a.m)
FNeg(a) == FNegF[a]

FMulF[p \in Float \X Float] ==
    LET a == p[1]
        b == p[2]
    IN  IF IsNaN(a) \/ IsNaN(b) THEN FNaN
        ELSE IF IsNum(a) /\ IsNum(b) THEN Fl(a.m * b.m, a.e + b.e)
        ELSE IF a.m = 0 \/ b.m = 0 THEN FNaN
        ELSE FInf(Sgn(a.m) * Sgn(b.m))
FMul(a, b) == FMulF[<<a, b>>]

\* an operand more than 5 digits below the other is lost in a sum
FAddF[p \in Float \X Float] ==
    LET a == p[1]
        b == p[2]
    IN  IF IsNaN(a) \/ IsNaN(b) THEN FNaN
        ELSE IF ~IsNum(a) /\ ~IsNum(b) THEN (IF a.m = b.m THEN a ELSE FNaN)
        ELSE IF ~IsNum(a) THEN a
        ELSE IF ~IsNum(b) THEN b
        ELSE IF a.m = 0 THEN b
        ELSE IF b.m = 0 THEN a
        ELSE IF a.e >= b.e
             THEN (IF a.e - b.e > 5 THEN a
                   ELSE Fl(a.m * Pow10(a.e - b.e) + b.m, b.e))
             ELSE (IF b.e - a.e > 5 THEN b
                   ELSE Fl(b.m * Pow10(b.e - a.e) + a.m, a.e))
FAdd(a, b) == FAddF[<<a, b>>]

FSub(a, b) == FAdd(a, FNeg(b))

FDivF[p \in Float \X Float] ==
    LET a == p[1]
        b == p[2]
    IN  IF IsNaN(a) \/ IsNaN(b) THEN FNaN
        ELSE IF ~IsNum(a) /\ ~IsNum(b) THEN FNaN
        ELSE IF ~IsNum(a) THEN FInf(a.m * (IF b.m < 0 THEN -1 ELSE 1))
        ELSE IF ~IsNum(b) THEN FZero
        ELSE IF b.m = 0 THEN (IF a.m = 0 THEN FNaN ELSE FInf(Sgn(a.m)))
        ELSE Fl(Sgn(b.m) * RoundDiv(a.m * MantHi, Abs(b.m)), a.e - b.e - 4)
FDiv(a, b) == FDivF[<<a, b>>]

\* the largest r in lo..hi with r * r <= n (lo * lo <= n)
RECURSIVE ISqrt(_, _, _)
ISqrt(n, lo, hi) ==
    IF lo >= hi THEN lo
    ELSE IF ((lo + hi + 1) \div 2) * ((lo + hi + 1) \div 2) <= n
         THEN ISqrt(n, (lo + hi + 1) \div 2, hi)
         ELSE ISqrt(n, lo, (lo + hi + 1) \div 2 - 1)

SqrtHi == 4 * MantHi

FSqrtF[a \in Float] ==
    IF IsNaN(a) THEN FNaN
    ELSE IF ~IsNum(a) THEN (IF a.m > 0 THEN a ELSE FNaN)
    ELSE IF a.m < 0 THEN FNaN
    ELSE IF a.m = 0 THEN FZero
    ELSE IF (a.e % 2) # 0
         THEN Fl(ISqrt(10 * a.m * MantHi, 0, SqrtHi), (a.e - 5) \div 2)
         ELSE Fl(ISqrt(a.m * MantHi, 0, SqrtHi), (a.e - 4) \div 2)
FSqrt(a) == FSqrtF[a]

\* |a| <= b on numbers
FAbsLeq(a, b) == IsNum(a) /\ IsNum(b) /\ IsNum(FSub(b, a)) /\ IsNum(FAdd(b, a))
                 /\ FSub(b, a).m >= 0 /\ FAdd(b, a).m >= 0

(***************************************************************************)
(* Angles.  One unit is 1e-7 rad.  HALF_PI is np.pi/2 and, like the        *)
(* double np.pi/2, it is the representable number next to pi/2 and not     *)
(* pi/2 itself: the library's cos reduces its argument against a more      *)
(* precise pi/2 (HalfPiFine, in units of 1e-8 rad), so that                *)
(* cos(np.pi/2) is a tiny number and not zero.                             *)
(***************************************************************************)
HALF_PI == 15707963
DEFAULT_RADIUS == 50
DEFAULT_SENSITIVITY == 50000
DEFAULT_FOV == 8726646

FineScale == 5 + 5
HalfPiFine == FineScale * HALF_PI + 3

Quadrant(a) == (FineScale * a + HalfPiFine \div 2) \div HalfPiFine
Reduced(a) == Fl(FineScale * a - Quadrant(a) * HalfPiFine, -8)

\* 1 - (x2/c[1]) * (1 - (x2/c[2]) * (1 - ...)): the Taylor series of sin(x)/x
\* with c = <<6, 20, 42>> and of cos(x) with c = <<2, 12, 30>>, x2 = x * x
RECURSIVE Series(_, _)
Series(x2, c) ==
    IF c = <<>> THEN FOne
    ELSE FSub(FOne, FMul(FDiv(x2, FromInt(Head(c))), Series(x2, Tail(c))))

SinSeries == <<6, 20, 42>>
CosSeries == <<2, 12, 30>>

Signed(negative, x) == IF negative THEN FNeg(x) ELSE x

\* sin(r + q * pi/2) for |r| <= pi/4
SinQuadrant(q, r) ==
    Signed(q % 4 >= 2,
           IF q % 2 = 0 THEN FMul(r, Series(FMul(r, r), SinSeries))
           ELSE Series(FMul(r, r), CosSeries))
SinAt[p \in Int \X Float] == SinQuadrant(p[1], p[2])

\* np.sin, np.cos
Sin(a) == SinAt[<<Quadrant(a), Reduced(a)>>]
Cos(a) == SinAt[<<Quadrant(a) + 1, Reduced(a)>>]

\* np.tan
Tan(a) == FDiv(Sin(a), Cos(a))

(***************************************************************************)
(* Vectors of three floats.                                                *)
(***************************************************************************)
Vec == Float \X Float \X Float

Axes == 1..3
Next1(i) == (i % 3) + 1
Next2(i) == ((i + 1) % 3) + 1

VScaleF[p \in Float \X Vec] == [i \in Axes |-> FMul(p[1], p[2][i])]
VScale(s, v) == VScaleF[<<s, v>>]

VDivF[p \in Vec \X Float] == [i \in Axes |-> FDiv(p[1][i], p[2])]
VDiv(v, s) == VDivF[<<v, s>>]

VNegF[v \in Vec] == [i \in Axes |-> FNeg(v[i])]
VNeg(v) == VNegF[v]

VAddF[p \in Vec \X Vec] == [i \in Axes |-> FAdd(p[1][i], p[2][i])]
VAdd(v, w) == VAddF[<<v, w>>]

\* v[1] * w[1] + ... + v[n] * w[n], summed from the left
RECURSIVE DotTo(_, _, _)
DotTo(v, w, n) ==
    IF n = 1 THEN FMul(v[1], w[1])
    ELSE FAdd(DotTo(v, w, n - 1), FMul(v[n], w[n]))
DotF[p \in Vec \X Vec] == DotTo(p[1], p[2], 3)
Dot(v, w) == DotF[<<v, w>>]

\* np.cross
CrossF[p \in Vec \X Vec] ==
    [i \in Axes |-> FSub(FMul(p[1][Next1(i)], p[2][Next2(i)]),
                         FMul(p[1][Next2(i)], p[2][Next1(i)]))]
Cross(v, w) == CrossF[<<v, w>>]

\* np.linalg.norm
VNormF[v \in Vec] == FSqrt(Dot(v, v))
VNorm(v) == VNormF[v]

(***************************************************************************)
(* The camera.                                                             *)
(*   radius .. _dirty   the fields of the Camera object                    *)
(*   last               the call made last: its name and its arguments     *)
(*   ret                what that call returned                            *)
(* History variables, which no operation of the code reads:                *)
(*   primary   the kind of the latest event of button 1 ("none" before     *)
(*             the first)                                                  *)
(*   pending   a motion event was handled while dragging since the last    *)
(*             consume_dirty, or the camera was never consumed             *)
(*   moved     theta or phi took a new value since the last consume_dirty  *)
(*   consumed  consume_dirty was called at least once                      *)
(***************************************************************************)
VARIABLES radius, theta, phi, fov, mouse_sensitivity, dragging, _dirty,
          last, ret, primary, pending, moved, consumed

fields == <<radius, theta, phi, fov, mouse_sensitivity, dragging, _dirty>>
history == <<primary, pending, moved, consumed>>
vars == <<fields, last, ret, history>>

\* Bounds of the model
MaxThetaSteps == 2
MaxDt == 1

\* Inputs: pixel deltas of a motion event, buttons, image sizes and pixels
DXs == {-700, 0, 700}
DYs == {-200, -100, 0, 100, 200}
Buttons == {1, 3}
Dts == 0..MaxDt
Images == {<<4, 2>>}
Pixels == {<<0, 0>>, <<3, 1>>}
Radii == {0, DEFAULT_RADIUS}
MaxTheta == MaxThetaSteps * 700 * DEFAULT_SENSITIVITY

Min(a, b) == IF a < b THEN a ELSE b
Max(a, b) == IF a > b THEN a ELSE b

NoArgs == [type |-> "none", button |-> 0, dx |-> 0, dy |-> 0]
ButtonDownEvent(b) == [type |-> "MOUSEBUTTONDOWN", button |-> b, dx |-> 0, dy |-> 0]
ButtonUpEvent(b) == [type |-> "MOUSEBUTTONUP", button |-> b, dx |-> 0, dy |-> 0]
MotionEvent(dx, dy) == [type |-> "MOUSEMOTION", button |-> 0, dx |-> dx, dy |-> dy]
KeyEvent == [type |-> "KEYDOWN", button |-> 0, dx |-> 0, dy |-> 0]

Call(op, args) == [op |-> op, args |-> args]
\* what a call returned: None, a boolean (b) or vectors (v)
ReturnedNone == [st |-> "return", kind |-> "None", b |-> FALSE, v |-> <<>>]
ReturnedBool(b) == [st |-> "return", kind |-> "bool", b |-> b, v |-> <<>>]
ReturnedVectors(v) == [st |-> "return", kind |-> "vectors", b |-> FALSE, v |-> v]

\* Camera.__init__
Init ==
    /\ radius = DEFAULT_RADIUS
    /\ theta = 0
    /\ phi = 0
    /\ fov = DEFAULT_FOV
    /\ mouse_sensitivity = DEFAULT_SENSITIVITY
    /\ dragging = FALSE
    /\ _dirty = TRUE
    /\ last = Call("__init__", NoArgs)
    /\ ret = ReturnedNone
    /\ primary = "none"
    /\ pending = TRUE
    /\ moved = FALSE
    /\ consumed = FALSE

(***************************************************************************)
(* Camera.handle_event                                                     *)
(***************************************************************************)
IsPrimaryAny(event) == TRUE
IsPrimary(event) == event.button = 1

MotionAlways(event) == event.type = "MOUSEMOTION"
MotionWhileDragging(event) == event.type = "MOUSEMOTION" /\ dragging

ThetaWrapped(dx) == (theta + dx * mouse_sensitivity) % (4 * HALF_PI)
ThetaAfter(dx) == theta + dx * mouse_sensitivity

PhiStepNotInverted(dy) == phi + dy * mouse_sensitivity
PhiStep(dy) == phi - dy * mouse_sensitivity

ClampBelowOnly(x) == Max(-HALF_PI, x)
Clamp(x) == Max(-HALF_PI, Min(HALF_PI, x))

DirtyIfChanged(dx, dy) == _dirty \/ dx # 0 \/ dy # 0
DirtyAfterMotion(dx, dy) == TRUE

handle_event(event) ==
    /\ IF event.type = "MOUSEBUTTONDOWN"
       THEN /\ dragging' = IF IsPrimary(event) THEN TRUE ELSE dragging
            /\ UNCHANGED <<theta, phi, _dirty>>
       ELSE IF event.type = "MOUSEBUTTONUP"
       THEN /\ dragging' = IF IsPrimary(event) THEN FALSE ELSE dragging
            /\ UNCHANGED <<theta, phi, _dirty>>
       ELSE IF MotionWhileDragging(event)
       THEN /\ theta' = ThetaAfter(event.dx)
            /\ phi' = Clamp(PhiStep(event.dy))
            /\ _dirty' = DirtyAfterMotion(event.dx, event.dy)
            /\ UNCHANGED dragging
       ELSE UNCHANGED <<theta, phi, _dirty, dragging>>
    /\ UNCHANGED <<radius, fov, mouse_sensitivity>>

\* a call of handle_event(event), with the history it leaves
HandleEvent(event) ==
    /\ handle_event(event)
    /\ Abs(theta') <= MaxTheta
    /\ last' = Call("handle_event", event)
    /\ ret' = ReturnedNone
    /\ primary' = IF event.button = 1 /\ event.type = "MOUSEBUTTONDOWN" THEN "down"
                  ELSE IF event.button = 1 /\ event.type = "MOUSEBUTTONUP" THEN "up"
                  ELSE primary
    /\ pending' = (pending \/ (event.type = "MOUSEMOTION" /\ dragging))
    /\ moved' = (moved \/ theta' # theta \/ phi' # phi)
    /\ UNCHANGED consumed

MouseButtonDown == \E b \in Buttons : HandleEvent(ButtonDownEvent(b))
MouseButtonUp == \E b \in Buttons : HandleEvent(ButtonUpEvent(b))
MouseMotion == \E dx \in DXs, dy \in DYs : HandleEvent(MotionEvent(dx, dy))
OtherEvent == HandleEvent(KeyEvent)

(***************************************************************************)
(* Camera.update                                                           *)
(***************************************************************************)
update_rotating(dt) == theta' = theta + dt /\ UNCHANGED <<radius, phi, fov, mouse_sensitivity, dragging, _dirty>>
update(dt) == UNCHANGED fields

Update ==
    \E dt \in Dts :
        /\ update(dt)
        /\ last' = Call("update", [NoArgs EXCEPT !.dx = dt])
        /\ ret' = ReturnedNone
        /\ moved' = (moved \/ theta' # theta \/ phi' # phi)
        /\ UNCHANGED <<primary, pending, consumed>>

(***************************************************************************)
(* Camera.consume_dirty                                                    *)
(***************************************************************************)
consume_dirty_keeping == ret' = ReturnedBool(_dirty) /\ UNCHANGED fields
consume_dirty ==
    /\ ret' = ReturnedBool(_dirty)
    /\ _dirty' = FALSE
    /\ UNCHANGED <<radius, theta, phi, fov, mouse_sensitivity, dragging>>

ConsumeDirty ==
    /\ consume_dirty
    /\ last' = Call("consume_dirty", NoArgs)
    /\ pending' = FALSE
    /\ moved' = FALSE
    /\ consumed' = TRUE
    /\ UNCHANGED primary

(***************************************************************************)
(* Camera.position, Camera.basis_vectors, Camera.ray_direction: functions  *)
(* of the fields, which assign to none of them.  position_of,              *)
(* basis_vectors_of and ray_direction_of compute them from given field     *)
(* values; Geometry tabulates them once over the field values the model    *)
(* can reach, and position, basis_vectors and ray_direction read the       *)
(* table at the current fields.                                            *)
(***************************************************************************)
position_of(r, th, ph) ==
    << FMul(FMul(FromInt(r), Cos(ph)), Cos(th)),
       FMul(FromInt(r), Sin(ph)),
       FMul(FMul(FromInt(r), Cos(ph)), Sin(th)) >>

world_up == <<FromInt(0), FromInt(1), FromInt(0)>>

NormalizedF[v \in Vec] == VDiv(v, VNorm(v))
NotNormalized(v) == v
Normalized(v) == NormalizedF[v]

\* basis_vectors, one operator for each local of the source: the operator
\* that has a local as its parameter computes the locals after it
basis_up(forward, right) == <<forward, right, Cross(forward, right)>>
basis_right(forward) == basis_up(forward, Normalized(Cross(world_up, forward)))
basis_forward(pos) == basis_right(VDiv(VNeg(pos), VNorm(pos)))
basis_vectors_of(r, th, ph) == basis_forward(position_of(r, th, ph))

x_ndc(px, img_w) ==
    FSub(FMul(FDiv(FAdd(FromInt(px), Fl(5, -1)), FromInt(img_w)), FromInt(2)), FOne)
y_ndc(py, img_h) ==
    FSub(FOne, FMul(FDiv(FAdd(FromInt(py), Fl(5, -1)), FromInt(img_h)), FromInt(2)))
dir_world(forward, right, up, x_cam, y_cam, z_cam) ==
    VAdd(VAdd(VScale(x_cam, right), VScale(y_cam, up)), VScale(z_cam, forward))
ray_camera(b, xn, yn, aspect, tan_half_fov) ==
    VDivF[<<dir_world(b[1], b[2], b[3], FMul(FMul(xn, aspect), tan_half_fov),
                      FMul(yn, tan_half_fov), FOne),
            VNorm(dir_world(b[1], b[2], b[3], FMul(FMul(xn, aspect), tan_half_fov),
                            FMul(yn, tan_half_fov), FOne))>>]
ray_direction_of(b, f, px, py, img_w, img_h) ==
    ray_camera(b, x_ndc(px, img_w), y_ndc(py, img_h),
               FDiv(FromInt(img_w), FromInt(img_h)), Tan(f \div 2))

\* the values theta and phi can take under the inputs DXs and DYs
ThetaGrid == {k * dx * DEFAULT_SENSITIVITY : k \in 0..MaxThetaSteps, dx \in DXs}
PhiOffsets == {o \in {j * dy * DEFAULT_SENSITIVITY : j \in 0..7, dy \in DYs} :
                  o >= 0 /\ o <= 2 * HALF_PI}
PhiGrid == {o \in PhiOffsets : o <= HALF_PI} \cup {-o : o \in {p \in PhiOffsets : p <= HALF_PI}}
           \cup {HALF_PI - o : o \in PhiOffsets} \cup {o - HALF_PI : o \in PhiOffsets}

GeometryAt(pos, b, f) ==
    [position |-> pos,
     basis |-> b,
     ray |-> [q \in Images \X Pixels |->
                 ray_direction_of(b, f, q[2][1], q[2][2], q[1][1], q[1][2])]]
Geometry ==
    [s \in Radii \X ThetaGrid \X PhiGrid \X {DEFAULT_FOV} |->
        GeometryAt(position_of(s[1], s[2], s[3]), basis_vectors_of(s[1], s[2], s[3]), s[4])]
    @@ <<>>

position == Geometry[<<radius, theta, phi, fov>>].position
basis_vectors == Geometry[<<radius, theta, phi, fov>>].basis
ray_direction(px, py, img_w, img_h) ==
    Geometry[<<radius, theta, phi, fov>>].ray[<<<<img_w, img_h>>, <<px, py>>>>]

Position ==
    /\ ret' = ReturnedVectors(<<position>>)
    /\ last' = Call("position", NoArgs)
    /\ UNCHANGED <<fields, history>>

BasisVectors ==
    /\ ret' = ReturnedVectors(basis_vectors)
    /\ last' = Call("basis_vectors", NoArgs)
    /\ UNCHANGED <<fields, history>>

RayDirection ==
    \E im \in Images, p \in Pixels :
        /\ ret' = ReturnedVectors(<<ray_direction(p[1], p[2], im[1], im[2])>>)
        /\ last' = Call("ray_direction", [NoArgs EXCEPT !.dx = p[1], !.dy = p[2]])
        /\ UNCHANGED <<fields, history>>

Next ==
    \/ MouseButtonDown
    \/ MouseButtonUp
    \/ MouseMotion
    \/ OtherEvent
    \/ Update
    \/ ConsumeDirty
    \/ Position
    \/ BasisVectors
    \/ RayDirection

Spec == Init /\ [][Next]_vars

(***************************************************************************)
(* The camera with its radius attribute overwritten from outside after     *)
(* construction (no operation of the class assigns it).                    *)
(***************************************************************************)
InitRadius ==
    /\ radius \in Radii
    /\ theta = 0
    /\ phi = 0
    /\ fov = DEFAULT_FOV
    /\ mouse_sensitivity = DEFAULT_SENSITIVITY
    /\ dragging = FALSE
    /\ _dirty = TRUE
    /\ last = Call("__init__", NoArgs)
    /\ ret = ReturnedNone
    /\ primary = "none"
    /\ pending = TRUE
    /\ moved = FALSE
    /\ consumed = FALSE

SpecRadius == InitRadius /\ [][Next]_vars

(***************************************************************************)
(* Properties                                                              *)
(***************************************************************************)
Handled(type) == last.op = "handle_event" /\ last.args.type = type
Handling(type) == last'.op = "handle_event" /\ last'.args.type = type
ReadOnlyOps == {"update", "position", "basis_vectors", "ray_direction"}

\* C1: in every reachable state phi lies in [-pi/2, pi/2].
PhiInRange == -HALF_PI <= phi /\ phi <= HALF_PI

\* a motion with negative dy was clamped to the upper bound
PhiClampedAbove == phi = HALF_PI /\ Handled("MOUSEMOTION") /\ last.args.dy < 0

\* C2: consume_dirty returns true exactly when the camera is fresh or a
\* motion event was handled while dragging since the previous consume_dirty,
\* and it clears the flag: the first call on a fresh camera returns true,
\* an immediately following call returns false, and after a drag motion the
\* next call returns true once.
ConsumeReadsAndClears ==
    [][last'.op = "consume_dirty"
       => (ret'.kind = "bool" /\ ret'.b = pending /\ _dirty' = FALSE)]_vars

\* consume_dirty returned false although the camera was dragged earlier
ConsumedTwiceAfterDrag ==
    last.op = "consume_dirty" /\ ret.b = FALSE /\ theta # 0 /\ phi # 0

\* C3 as stated: after the first consume_dirty, _dirty holds exactly when
\* theta or phi changed since the last consume_dirty.
DirtyIffOrientationChanged == consumed => (_dirty <=> moved)

\* C3 as amended: after the first consume_dirty, _dirty holds exactly when a
\* motion event was handled while dragging since the last consume_dirty; it
\* holds whenever theta or phi changed since then, and also after a drag
\* motion that changed neither.
DirtyIffDragMotion == consumed => ((_dirty <=> pending) /\ (moved => _dirty))

\* a drag motion left theta and phi as they were, and _dirty is true
DirtyWithoutChange == consumed /\ _dirty /\ ~moved /\ Handled("MOUSEMOTION")

\* C4: a motion event handled while dragging is false leaves theta, phi and
\* _dirty unchanged.
MotionIgnoredWhenNotDragging ==
    [][(Handling("MOUSEMOTION") /\ ~dragging) => UNCHANGED <<theta, phi, _dirty>>]_vars

\* a motion with nonzero deltas was handled after the primary button went up,
\* following a drag and a consume_dirty
MotionAfterRelease ==
    /\ Handled("MOUSEMOTION") /\ last.args.dx # 0 /\ last.args.dy # 0
    /\ ~dragging /\ primary = "up" /\ theta # 0 /\ ~_dirty

\* C5: a motion event (dx, dy) handled while dragging sets theta to
\* theta + dx * sensitivity without wrapping, phi to phi - dy * sensitivity
\* clamped to [-pi/2, pi/2] and _dirty to true, and leaves dragging, radius,
\* fov and mouse_sensitivity unchanged.
DragMotionEffect ==
    [][(Handling("MOUSEMOTION") /\ dragging) =>
         /\ theta' = theta + last'.args.dx * mouse_sensitivity
         /\ phi' = (IF phi - last'.args.dy * mouse_sensitivity > HALF_PI THEN HALF_PI
                    ELSE IF phi - last'.args.dy * mouse_sensitivity < -HALF_PI THEN -HALF_PI
                    ELSE phi - last'.args.dy * mouse_sensitivity)
         /\ _dirty' = TRUE
         /\ UNCHANGED <<dragging, radius, fov, mouse_sensitivity>>]_vars

\* a drag carried theta beyond a full turn (2 pi = 4 * HALF_PI)
ThetaBeyondFullTurn ==
    Handled("MOUSEMOTION") /\ dragging /\ theta > 4 * HALF_PI /\ _dirty

\* C6: dragging is true exactly when the latest event of button 1 was a
\* button-down; events of other buttons, motion events and other events leave
\* dragging unchanged; button events leave theta, phi and _dirty unchanged.
DraggingTracksPrimaryButton ==
    /\ [](dragging <=> primary = "down")
    /\ [][(last'.op = "handle_event"
           /\ ~(last'.args.button = 1
                /\ last'.args.type \in {"MOUSEBUTTONDOWN", "MOUSEBUTTONUP"}))
          => UNCHANGED dragging]_vars
    /\ [][(Handling("MOUSEBUTTONDOWN") \/ Handling("MOUSEBUTTONUP"))
          => UNCHANGED <<theta, phi, _dirty>>]_vars

\* another button was released during a drag, and the drag goes on
OtherButtonReleasedWhileDragging ==
    Handled("MOUSEBUTTONUP") /\ last.args.button # 1 /\ dragging /\ theta # 0

\* C7: if motion events with negative dy keep being handled while dragging
\* and from some point on none with positive dy is, phi becomes pi/2 and
\* stays there; symmetrically positive dy drives phi to -pi/2.
PushUp == Handling("MOUSEMOTION") /\ dragging /\ last'.args.dy < 0
PushDown == Handling("MOUSEMOTION") /\ dragging /\ last'.args.dy > 0
PhiDrivenToBound ==
    /\ ([]<><<PushUp>>_vars /\ <>[][~PushDown]_vars) => <>[](phi = HALF_PI)
    /\ ([]<><<PushDown>>_vars /\ <>[][~PushUp]_vars) => <>[](phi = -HALF_PI)

\* since the last consume_dirty, drag motions with negative dy were handled
\* at phi = pi/2 and phi took no other value
PushedAgainstUpperBound ==
    /\ phi = HALF_PI /\ consumed /\ pending /\ ~moved
    /\ Handled("MOUSEMOTION") /\ last.args.dy < 0

\* C8 as stated: with radius = 0, basis_vectors and ray_direction signal an
\* error and do not return.
DegenerateRadiusRaises ==
    (radius = 0 /\ last.op \in {"basis_vectors", "ray_direction"}) => ret.st = "raise"

\* C9: in every reachable state forward, right and up are of unit norm and
\* pairwise orthogonal (within the tolerance of the arithmetic), forward
\* points from the position to the origin (forward . position = -radius,
\* relative to radius), right is perpendicular to the
\* world's up axis, and up is cross(forward, right).
Tolerance == Fl(1, -2)
Near(a, b) == FAbsLeq(FSub(a, b), Tolerance)
UnitNorm(v) == Near(Dot(v, v), FOne)
Orthogonal(v, w) == Near(Dot(v, w), FZero)
Orthonormal(b) ==
    /\ UnitNorm(b[1]) /\ UnitNorm(b[2]) /\ UnitNorm(b[3])
    /\ Orthogonal(b[1], b[2]) /\ Orthogonal(b[1], b[3]) /\ Orthogonal(b[2], b[3])
BasisOrthonormal ==
    /\ Orthonormal(basis_vectors)
    /\ Near(FDiv(Dot(basis_vectors[1], position), FromInt(radius)), FNeg(FOne))
    /\ Orthogonal(basis_vectors[2], world_up)
    /\ basis_vectors[3] = Cross(basis_vectors[1], basis_vectors[2])

\* basis_vectors was called at a clamped endpoint, away from theta = 0
BasisAtClampedPhi ==
    last.op = "basis_vectors" /\ phi \in {HALF_PI, -HALF_PI} /\ theta # 0

\* C10: update, position, basis_vectors and ray_direction change no field,
\* so the basis vectors returned by a call of basis_vectors are still the
\* basis vectors after any of these calls.
QueriesReadOnly ==
    /\ [][last'.op \in ReadOnlyOps => UNCHANGED fields]_vars
    /\ [][(last.op = "basis_vectors" /\ last'.op \in ReadOnlyOps)
          => basis_vectors' = ret.v]_vars

\* update was called with a positive dt in the middle of a drag, after a
\* consume_dirty, and the flag is still clear
UpdateDuringDrag ==
    last.op = "update" /\ last.args.dx > 0 /\ dragging /\ theta # 0 /\ ~_dirty
====
